---------------------------- MODULE Spec2Model ----------------------------
(***************************************************************************)
(* Model of mrjob/logs/task.py: the task-log path classifier               *)
(* (_match_task_log_path), the log discoverer and pairer (_ls_task_logs),  *)
(* the stderr and syslog scanners (_parse_task_stderr, _parse_task_syslog) *)
(* and the interpretation loop (_interpret_task_logs).                     *)
(*                                                                         *)
(* Representation of text.  A Python string is the sequence of the chunks  *)
(* whose concatenation is the string; the empty string is the empty        *)
(* sequence.  Chunks are cut where the regular expressions of task.py test *)
(* the text.  In a path the separators "/", "_", "." and "\n" are chunks   *)
(* of their own, and so is every maximal run of letters and digits between *)
(* them.  In a line of a log the blank, the tab, "\r" and "\n" are chunks  *)
(* of their own, a literal text that a pattern requires is one chunk, and  *)
(* so is any other run of text between them.                               *)
(* A Python dict is a function from its keys (strings) to its values, and  *)
(* a Python list is a sequence.                                            *)
(***************************************************************************)
EXTENDS Integers, Sequences, FiniteSets, TLC

VARIABLES
    \* ---- _match_task_log_path: one call
    m_path,           \* argument path
    m_application_id, \* argument application_id (an optional string)
    m_job_id,         \* argument job_id (an optional string)
    m_result,         \* the value returned
    m_pc,             \* "call" before the call, "done" after it
    \* ---- _ls_task_logs: one call
    listing,          \* the paths fs.ls() yields under the log dirs, in order
    ls_application_id,
    ls_job_id,
    ls_i,             \* index of the next listing entry the loop will take
    stderr_logs,      \* local list stderr_logs
    syslogs,          \* local list syslogs
    ls_result,        \* the list returned
    ls_pc,            \* "loop" (lines 85-91) or "done" (returned)
    \* ---- _interpret_task_logs: one call
    fs_stderr,        \* file contents: stderr path -> its lines
    fs_syslog,        \* file contents: syslog path -> its log4j records
    matches,          \* argument matches
    partial,          \* argument partial
    log_callback,     \* TRUE iff a log_callback was passed
    i,                \* index of the match the for loop will take next
    result,           \* local dict result
    syslogs_parsed,   \* local set syslogs_parsed
    io_log,           \* what the call did to the outside, in order
    pc,               \* "loop", "done" (returned) or "raised"
    call,             \* which call on these arguments is made: 1 or 2
    first_result,     \* what the first of two calls returned
    first_io_log,     \* what the first of two calls did to the outside
    \* ---- _parse_task_stderr: one call
    se_lines,         \* argument lines
    se_n,             \* index (0-based) of the line the for loop takes next
    se_st,            \* locals task_error, stack_trace_start_line, line_num
    se_result,        \* the value returned
    se_pc,            \* "loop" (lines 289-316) or "done" (returned)
    \* ---- _parse_task_syslog: one call
    sy_records,       \* the records _parse_hadoop_log4j_records can yield
    sy_k,             \* index of the record the for loop pulls next
    sy_result,        \* local dict result
    sy_pc             \* "loop" (lines 243-266) or "done" (returned)

vars == <<m_path, m_application_id, m_job_id, m_result, m_pc,
          listing, ls_application_id, ls_job_id, ls_i, stderr_logs, syslogs,
          ls_result, ls_pc,
          fs_stderr, fs_syslog, matches, partial, log_callback, i, result,
          syslogs_parsed, io_log, pc, call, first_result, first_io_log,
          se_lines, se_n, se_st, se_result, se_pc,
          sy_records, sy_k, sy_result, sy_pc>>

m_vars == <<m_path, m_application_id, m_job_id, m_result, m_pc>>
ls_vars == <<listing, ls_application_id, ls_job_id, ls_i, stderr_logs,
             syslogs, ls_result, ls_pc>>
it_vars == <<fs_stderr, fs_syslog, matches, partial, log_callback, i, result,
             syslogs_parsed, io_log, pc, call, first_result, first_io_log>>
again_vars == <<call, first_result, first_io_log>>
se_vars == <<se_lines, se_n, se_st, se_result, se_pc>>
sy_vars == <<sy_records, sy_k, sy_result, sy_pc>>

-----------------------------------------------------------------------------
(* Python values *)

\* Python's None where a dict is expected
None == [None |-> TRUE]

\* an absent integer (Python's None where an int is expected)
NoLine == -1

\* an optional string argument: absent (None) or a string
NoArg == [given |-> FALSE, val |-> <<>>]

Arg(s) == [given |-> TRUE, val |-> s]

\* truth value of an optional string: None and '' are false
ArgTruthy(a) == a.given /\ a.val # <<>>

\* truth value of a dict-or-None
DictTruthy(d) == d # None /\ DOMAIN d # {}

\* d.get(k)
Get(d, k) == IF k \in DOMAIN d THEN d[k] ELSE None

\* d with d[k] = v set
Put(d, k, v) == [x \in DOMAIN d \cup {k} |-> IF x = k THEN v ELSE d[x]]

\* the greatest and the least element of a set of numbers
MaxOf(S) == CHOOSE x \in S : \A y \in S : y <= x

MinOf(S) == CHOOSE x \in S : \A y \in S : x <= y

\* number of characters of a chunk sequence
RECURSIVE StrLen(_)
StrLen(s) == IF s = <<>> THEN 0 ELSE Len(Head(s)) + StrLen(Tail(s))

-----------------------------------------------------------------------------
(* The regular expressions of the path classifier *)

\* chunks that are runs of decimal digits (\d+)
DigitRuns == {"1", "2", "3", "0005", "0008", "008", "2015", "2016"}

\* chunks made of word characters only (\w+)
WordRuns == DigitRuns \cup {"_", "gz", "log", "logs", "json", "m", "r", "x",
                            "attempt", "application", "container", "job",
                            "stderr", "syslog", "stdout"}

IsDigits(c) == c \in DigitRuns

\* attempt_(\d+)_(\d+)_([mr])_(\d+)_(\d+)
IsAttemptId(s) ==
    /\ Len(s) = 11
    /\ s[1] = "attempt" /\ s[2] = "_" /\ IsDigits(s[3])
    /\ s[4] = "_" /\ IsDigits(s[5])
    /\ s[6] = "_" /\ s[7] \in {"m", "r"}
    /\ s[8] = "_" /\ IsDigits(s[9])
    /\ s[10] = "_" /\ IsDigits(s[11])

\* application_\d+_\d{4}
IsApplicationId(s) ==
    /\ Len(s) = 5
    /\ s[1] = "application" /\ s[2] = "_" /\ IsDigits(s[3])
    /\ s[4] = "_" /\ IsDigits(s[5]) /\ Len(s[5]) = 4

\* container(_\d+)+
IsContainerId(s) ==
    /\ Len(s) >= 3 /\ Len(s) % 2 = 1
    /\ s[1] = "container"
    /\ \A k \in 2..Len(s) : IF k % 2 = 0 THEN s[k] = "_" ELSE IsDigits(s[k])

\* (\.\w{1,3})?$  -- $ also matches just before a final newline
IsSuffixAndEnd(s) ==
    LET t == IF s # <<>> /\ s[Len(s)] = "\n" THEN SubSeq(s, 1, Len(s) - 1)
             ELSE s
    IN  \/ t = <<>>
        \/ /\ Len(t) >= 2 /\ t[1] = "."
           /\ \A k \in 2..Len(t) : t[k] \in WordRuns
           /\ StrLen(Tail(t)) \in 1..3

\* (stderr|syslog)(\.\w{1,3})?$
IsLogFile(s) ==
    /\ s # <<>>
    /\ s[1] \in {"stderr", "syslog"}
    /\ IsSuffixAndEnd(Tail(s))

\* ^(.*?/) : a prefix that ends with "/"; "." matches no newline
IsPrefix(s) ==
    /\ s # <<>> /\ s[Len(s)] = "/"
    /\ \A k \in 1..Len(s) : s[k] # "\n"

\* _PRE_YARN_TASK_LOG_PATH_RE.match(path): the set of ends k of the prefix
\* for which the pattern matches (empty: no match, else one element)
PreYarnMatches(path) ==
    {k \in 1..(Len(path) - 12) :
        /\ path[k] = "/" /\ path[k + 12] = "/"
        /\ IsPrefix(SubSeq(path, 1, k))
        /\ IsAttemptId(SubSeq(path, k + 1, k + 11))
        /\ IsLogFile(SubSeq(path, k + 13, Len(path)))}

\* _YARN_TASK_LOG_PATH_RE.match(path): the set of pairs <<k, c>>, k the end
\* of the prefix and c the end of the container id
YarnMatches(path) ==
    LET ks == {k \in 1..(Len(path) - 6) :
                  /\ path[k] = "/" /\ path[k + 6] = "/"
                  /\ IsPrefix(SubSeq(path, 1, k))
                  /\ IsApplicationId(SubSeq(path, k + 1, k + 5))}
    IN  UNION {{<<k, c>> : c \in {c \in (k + 7)..(Len(path) - 1) :
                                     /\ path[c + 1] = "/"
                                     /\ IsContainerId(SubSeq(path, k + 7, c))
                                     /\ IsLogFile(SubSeq(path, c + 2, Len(path)))}}
               : k \in ks}

\* mrjob.logs.ids._to_job_id: 'job_' + the timestamp and step number of the
\* attempt id
_to_job_id(attempt_id) == <<"job", "_", attempt_id[3], "_", attempt_id[5]>>

\* an empty job_id taken for a filter
PreYarnWrongJob_NotNone(job_id, attempt_id) ==
    job_id.given /\ job_id.val # _to_job_id(attempt_id)

\* line 122
PreYarnWrongJob(job_id, attempt_id) ==
    ArgTruthy(job_id) /\ job_id.val # _to_job_id(attempt_id)

\* the application_id filter ignored
YarnWrongApplication_Never(application_id, found) == FALSE

YarnWrongApplication(application_id, found) ==
    ArgTruthy(application_id) /\ application_id.val # found

\* lines 124-126
PreYarnFields(attempt_id, log_type) ==
    [attempt_id |-> attempt_id, log_type |-> log_type]

\* the container id left out
YarnFields_NoContainer(application_id, container_id, log_type) ==
    [application_id |-> application_id, log_type |-> log_type]

\* lines 132-135
YarnFields(application_id, container_id, log_type) ==
    [application_id |-> application_id, container_id |-> container_id,
     log_type |-> log_type]

_match_task_log_path(path, application_id, job_id) ==
    IF PreYarnMatches(path) # {}
    THEN LET k == CHOOSE k \in PreYarnMatches(path) : TRUE
             attempt_id == SubSeq(path, k + 1, k + 11)
         IN  IF PreYarnWrongJob(job_id, attempt_id)
             THEN None
             ELSE PreYarnFields(attempt_id, path[k + 13])
    ELSE IF YarnMatches(path) # {}
    THEN LET kc == CHOOSE kc \in YarnMatches(path) : TRUE
             app == SubSeq(path, kc[1] + 1, kc[1] + 5)
         IN  IF YarnWrongApplication(application_id, app)
             THEN None
             ELSE YarnFields(app, SubSeq(path, kc[1] + 7, kc[2]),
                             path[kc[2] + 2])
    ELSE None

-----------------------------------------------------------------------------
(* Paths the calls are tried on *)

Attempt1 == <<"attempt", "_", "2015", "_", "0008", "_", "m", "_", "1", "_", "3">>

Attempt2 == <<"attempt", "_", "2015", "_", "0005", "_", "r", "_", "2", "_", "1">>

App1 == <<"application", "_", "2015", "_", "0005">>

App2 == <<"application", "_", "2016", "_", "0008">>

Container1 == <<"container", "_", "1", "_", "2">>

Container2 == <<"container", "_", "3">>

Job1 == <<"job", "_", "2015", "_", "0008">>

Job2 == <<"job", "_", "2015", "_", "0005">>

\* directory parts: task-attempt directories, well formed and not
DirUniverse == {
    Attempt1,
    Attempt2,
    <<"attempt", "_", "2015", "_", "0008", "_", "x", "_", "1", "_", "3">>,
    <<"attempt", "_", "2015", "_", "0008", "_", "m", "_", "1">>,
    App1 \o <<"/">> \o Container1,
    App1 \o <<"/">> \o Container2,
    App2 \o <<"/">> \o Container1,
    <<"application", "_", "2015", "_", "008", "/">> \o Container1,
    App1 \o <<"/", "container">>,
    Container1,
    <<"logs">> }

FileUniverse == {
    <<"stderr">>, <<"syslog">>, <<"stdout">>,
    <<"stderr", ".", "gz">>, <<"syslog", ".", "json">>,
    <<"stderr", ".", "x", "_", "1">>, <<"syslog", "\n">>, <<"stderr", ".">> }

PrefixUniverse == { <<>>, <<"/">>, <<"/", "logs", "/">> }

PathUniverse ==
    {pre \o dir \o <<"/">> \o file :
        pre \in PrefixUniverse, dir \in DirUniverse, file \in FileUniverse}

JobIdArgs == {NoArg, Arg(<<>>), Arg(Job1), Arg(Job2)}

ApplicationIdArgs == {NoArg, Arg(<<>>), Arg(App1), Arg(App2)}

-----------------------------------------------------------------------------
(* Values of the variables of a call that is not made *)

MatchIdle ==
    /\ m_path = <<>> /\ m_application_id = NoArg /\ m_job_id = NoArg
    /\ m_result = None /\ m_pc = "idle"

LsIdle ==
    /\ listing = <<>> /\ ls_application_id = NoArg /\ ls_job_id = NoArg
    /\ ls_i = 0 /\ stderr_logs = <<>> /\ syslogs = <<>> /\ ls_result = <<>>
    /\ ls_pc = "idle"

InterpretIdle ==
    /\ fs_stderr = <<>> /\ fs_syslog = <<>> /\ matches = <<>>
    /\ partial = FALSE /\ log_callback = FALSE /\ i = 0 /\ result = <<>>
    /\ syslogs_parsed = {} /\ io_log = <<>> /\ pc = "idle"
    /\ call = 0 /\ first_result = <<>> /\ first_io_log = <<>>

StderrIdle ==
    /\ se_lines = <<>> /\ se_n = 0
    /\ se_st = [task_error |-> None, stack_trace_start_line |-> NoLine,
                line_num |-> NoLine]
    /\ se_result = None /\ se_pc = "idle"

SyslogIdle ==
    /\ sy_records = <<>> /\ sy_k = 0 /\ sy_result = <<>> /\ sy_pc = "idle"

-----------------------------------------------------------------------------
(* One call of _match_task_log_path *)

InitMatch ==
    /\ m_path \in PathUniverse
    /\ m_application_id \in ApplicationIdArgs
    /\ m_job_id \in JobIdArgs
    /\ m_result = None
    /\ m_pc = "call"
    /\ LsIdle /\ InterpretIdle /\ StderrIdle /\ SyslogIdle

Classify ==
    /\ m_pc = "call"
    /\ m_result' = _match_task_log_path(m_path, m_application_id, m_job_id)
    /\ m_pc' = "done"
    /\ UNCHANGED <<m_path, m_application_id, m_job_id>>
    /\ UNCHANGED <<ls_vars, it_vars, se_vars, sy_vars>>

NextMatch == Classify

SpecMatch == InitMatch /\ [][NextMatch]_vars

-----------------------------------------------------------------------------
(* One call of _ls_task_logs *)

\* bound on the number of files listed
MaxFiles == 3

\* the files that can be listed
LsPaths == {
    <<"/">> \o Attempt1 \o <<"/", "stderr">>,
    <<"/">> \o Attempt1 \o <<"/", "syslog">>,
    <<"/">> \o Attempt2 \o <<"/", "stderr">>,
    <<"/">> \o App1 \o <<"/">> \o Container1 \o <<"/", "stderr">>,
    <<"/">> \o App1 \o <<"/">> \o Container1 \o <<"/", "syslog">>,
    <<"/">> \o App1 \o <<"/">> \o Container1 \o <<"/", "syslog", ".", "gz">>,
    <<"/">> \o App1 \o <<"/">> \o Container2 \o <<"/", "syslog">>,
    <<"/", "logs", "/", "stdout">> }

SeqsUpTo(S, n) == UNION {[1..k -> S] : k \in 0..n}

\* mrjob.logs.wrap._ls_logs, for one listed path: the match the matcher
\* returns, with the path added; None when the matcher returns None
_ls_logs(path, application_id, job_id) ==
    LET match == _match_task_log_path(path, application_id, job_id)
    IN  IF match = None THEN None ELSE Put(match, "path", path)

\* the path kept in the key
_log_key_WithPath(match) == [k \in DOMAIN match \ {"log_type"} |-> match[k]]

\* _log_key(match): the items of the match other than log_type and path
_log_key(match) ==
    [k \in DOMAIN match \ {"log_type", "path"} |-> match[k]]

\* the first syslog of a key kept
key_to_syslog_get_First(logs, key) ==
    LET S == {k \in 1..Len(logs) : _log_key(logs[k]) = key}
    IN  IF S = {} THEN None
        ELSE logs[CHOOSE k \in S : \A j \in S : k <= j]

\* key_to_syslog.get(key) for key_to_syslog = dict((_log_key(m), m) for m in
\* logs): a later item of the same key replaces an earlier one
key_to_syslog_get(logs, key) ==
    LET S == {k \in 1..Len(logs) : _log_key(logs[k]) = key}
    IN  IF S = {} THEN None
        ELSE logs[CHOOSE k \in S : \A j \in S : j <= k]

\* the stderr logs with no syslog kept
stderr_logs_with_syslog_All(s) == s

\* line 104: [m for m in stderr_logs if m['syslog']]
RECURSIVE stderr_logs_with_syslog(_)
stderr_logs_with_syslog(s) ==
    IF s = <<>> THEN <<>>
    ELSE IF DictTruthy(Head(s)["syslog"])
         THEN <<Head(s)>> \o stderr_logs_with_syslog(Tail(s))
         ELSE stderr_logs_with_syslog(Tail(s))

\* lines 100-101: every stderr match gets its 'syslog' field
WithSyslogField(logs, syslog_list) ==
    [k \in 1..Len(logs) |->
        Put(logs[k], "syslog", key_to_syslog_get(syslog_list, _log_key(logs[k])))]

\* the syslogs put first
Returned_SyslogsFirst(stderr_list, syslog_list) ==
    syslog_list \o stderr_logs_with_syslog(stderr_list)

\* line 106
Returned(stderr_list, syslog_list) ==
    stderr_logs_with_syslog(stderr_list) \o syslog_list

LsApplicationIdArgs == {NoArg, Arg(App1), Arg(App2)}

LsJobIdArgs == {NoArg, Arg(Job1)}

InitLs ==
    /\ listing \in SeqsUpTo(LsPaths, MaxFiles)
    /\ ls_application_id \in LsApplicationIdArgs
    /\ ls_job_id \in LsJobIdArgs
    /\ ls_i = 1
    /\ stderr_logs = <<>> /\ syslogs = <<>> /\ ls_result = <<>>
    /\ ls_pc = "loop"
    /\ MatchIdle /\ InterpretIdle /\ StderrIdle /\ SyslogIdle

\* lines 85-91: one turn of the loop over _ls_logs
LsLoop ==
    /\ ls_pc = "loop" /\ ls_i <= Len(listing)
    /\ LET match == _ls_logs(listing[ls_i], ls_application_id, ls_job_id)
       IN  IF match = None
           THEN UNCHANGED <<stderr_logs, syslogs>>
           ELSE IF match["log_type"] = "stderr"
           THEN stderr_logs' = Append(stderr_logs, match) /\ UNCHANGED syslogs
           ELSE IF match["log_type"] = "syslog"
           THEN syslogs' = Append(syslogs, match) /\ UNCHANGED stderr_logs
           ELSE UNCHANGED <<stderr_logs, syslogs>>
    /\ ls_i' = ls_i + 1
    /\ UNCHANGED <<listing, ls_application_id, ls_job_id, ls_result, ls_pc>>
    /\ UNCHANGED <<m_vars, it_vars, se_vars, sy_vars>>

\* lines 93-106: pair, drop the stderr logs with no syslog, return
LsReturn ==
    /\ ls_pc = "loop" /\ ls_i > Len(listing)
    /\ stderr_logs' = WithSyslogField(stderr_logs, syslogs)
    /\ ls_result' = Returned(stderr_logs', syslogs)
    /\ ls_pc' = "done"
    /\ UNCHANGED <<listing, ls_application_id, ls_job_id, ls_i, syslogs>>
    /\ UNCHANGED <<m_vars, it_vars, se_vars, sy_vars>>

NextLs == LsLoop \/ LsReturn

SpecLs == InitLs /\ [][NextLs]_vars

-----------------------------------------------------------------------------
(* _parse_task_stderr.  A line is a sequence of chunks; the blank " ", the  *)
(* tab, "\r" and "\n" are chunks of their own.                             *)

Whitespace == {" ", "\t"}

\* the text _SUBPROCESS_FAILED_STACK_TRACE_START requires at the start
SubprocessFailed ==
    "java.lang.RuntimeException: PipeMapRed.waitOutputThreads(): subprocess failed with code "

\* line.rstrip('\r\n')
RECURSIVE rstrip(_)
rstrip(line) ==
    IF line # <<>> /\ line[Len(line)] \in {"\r", "\n"}
    THEN rstrip(SubSeq(line, 1, Len(line) - 1))
    ELSE line

\* _SUBPROCESS_FAILED_STACK_TRACE_START.match(line), line right-stripped
IsSubprocessFailed(line) == line # <<>> /\ line[1] = SubprocessFailed

\* only blanks taken for indentation
IsIndented_BlankOnly(line) == line # <<>> /\ line[1] = " "

\* line.lstrip() != line
IsIndented(line) == line # <<>> /\ line[1] \in Whitespace

\* the warnings not recognised
IsIgnored_Never(line) == FALSE

\* _TASK_STDERR_IGNORE_RE.match(line): ^log4j:WARN .*$
IsIgnored(line) == Len(line) >= 2 /\ line[1] = "log4j:WARN" /\ line[2] = " "

\* a command line never starting a new block
StartsCommand_Never(line) == FALSE

\* line.startswith('+ ')
StartsCommand(line) == Len(line) >= 2 /\ line[1] = "+" /\ line[2] = " "

\* the stack_trace_start_line left out of the end line
OrElse_Second(a, b) == b

\* a or b, for a an optional line number: None and 0 are false
OrElse(a, b) == IF a # NoLine /\ a # 0 THEN a ELSE b

\* the length set anew at every warning
NeedsNumLines_Always(te) == DictTruthy(te)

\* line 308: task_error and 'num_lines' not in task_error
NeedsNumLines(te) == DictTruthy(te) /\ "num_lines" \notin DOMAIN te

\* lines 290-316: one turn of the for loop, on line number line_num whose
\* text is raw; st holds task_error, stack_trace_start_line and line_num
stderr_body(line_num, raw, st) ==
    LET line == rstrip(raw)
        seen == [st EXCEPT !.line_num = line_num]
        \* lines 299-303
        trace == IF seen.stack_trace_start_line # NoLine /\ ~IsIndented(line)
                 THEN [seen EXCEPT !.stack_trace_start_line = NoLine]
                 ELSE seen
        te == trace.task_error
    IN  IF IsSubprocessFailed(line)
        THEN [seen EXCEPT !.stack_trace_start_line = line_num]
        ELSE IF seen.stack_trace_start_line # NoLine /\ IsIndented(line)
        THEN seen
        ELSE IF IsIgnored(line)
        THEN IF NeedsNumLines(te)
             THEN [trace EXCEPT !.task_error =
                      Put(te, "num_lines", line_num - te["start_line"])]
             ELSE trace
        ELSE IF ~DictTruthy(te) \/ StartsCommand(line)
        THEN [trace EXCEPT !.task_error =
                 [message |-> line, start_line |-> line_num]]
        ELSE [trace EXCEPT !.task_error =
                 Put(te, "message", te["message"] \o <<"\n">> \o line)]

\* lines 286-287
stderr_entry ==
    [task_error |-> None, stack_trace_start_line |-> NoLine,
     line_num |-> NoLine]

\* lines 289-316: the loop from line line_num (0-indexed) on
RECURSIVE stderr_loop(_, _, _)
stderr_loop(lines, line_num, st) ==
    IF line_num >= Len(lines) THEN st
    ELSE stderr_loop(lines, line_num + 1,
                     stderr_body(line_num, lines[line_num + 1], st))

\* the end line taken one short
stderr_return_OffByOne(st) ==
    LET te == st.task_error
    IN  IF DictTruthy(te)
        THEN IF "num_lines" \notin DOMAIN te
             THEN Put(te, "num_lines",
                      OrElse(st.stack_trace_start_line, st.line_num)
                          - te["start_line"])
             ELSE te
        ELSE None

\* lines 318-324
stderr_return(st) ==
    LET te == st.task_error
    IN  IF DictTruthy(te)
        THEN IF "num_lines" \notin DOMAIN te
             THEN Put(te, "num_lines",
                      OrElse(st.stack_trace_start_line, st.line_num + 1)
                          - te["start_line"])
             ELSE te
        ELSE None

_parse_task_stderr(lines) == stderr_return(stderr_loop(lines, 0, stderr_entry))

(* One call of _parse_task_stderr, a line at a time *)

\* bound on the number of lines of a stderr file
MaxLines == 4

CmdLine1 == <<"+", " ", "cmd1">>

CmdLine2 == <<"+", " ", "cmd2">>

ErrLine == <<"err line">>

\* a line of a Python traceback
PyLine == <<" ", "File x.py", "\n">>

SigLine == <<SubprocessFailed, "1", "\n">>

\* a line of the Java stack trace that follows the signature
FrameLine == <<"\t", "at Foo.run(Foo.java:12)", "\r", "\n">>

NoiseLine == <<"log4j:WARN", " ", "No appenders", "\n">>

EmptyLine == <<"\n">>

StderrLines == {CmdLine1, CmdLine2, ErrLine, PyLine, SigLine, FrameLine,
                NoiseLine, EmptyLine}

InitStderr ==
    /\ se_lines \in SeqsUpTo(StderrLines, MaxLines)
    /\ se_n = 0
    /\ se_st = stderr_entry
    /\ se_result = None
    /\ se_pc = "loop"
    /\ MatchIdle /\ LsIdle /\ InterpretIdle /\ SyslogIdle

\* lines 289-316: one turn of the for loop
StderrLine ==
    /\ se_pc = "loop" /\ se_n < Len(se_lines)
    /\ se_st' = stderr_body(se_n, se_lines[se_n + 1], se_st)
    /\ se_n' = se_n + 1
    /\ UNCHANGED <<se_lines, se_result, se_pc>>
    /\ UNCHANGED <<m_vars, ls_vars, it_vars, sy_vars>>

\* lines 318-324: the lines are exhausted
StderrReturn ==
    /\ se_pc = "loop" /\ se_n >= Len(se_lines)
    /\ se_result' = stderr_return(se_st)
    /\ se_pc' = "done"
    /\ UNCHANGED <<se_lines, se_n, se_st>>
    /\ UNCHANGED <<m_vars, ls_vars, it_vars, sy_vars>>

NextStderr == StderrLine \/ StderrReturn

SpecStderr == InitStderr /\ [][NextStderr]_vars

-----------------------------------------------------------------------------
(* _parse_task_syslog.  A syslog is given as the records                    *)
(* _parse_hadoop_log4j_records yields for it; a record is                   *)
(* [message, start_line, num_lines].                                        *)

\* int() of a run of digits
DigitValue(c) ==
    CASE c = "1" -> 1 [] c = "2" -> 2 [] c = "3" -> 3 [] c = "0005" -> 5
      [] c = "0008" -> 8 [] c = "008" -> 8 [] c = "2015" -> 2015
      [] c = "2016" -> 2016

\* the message without the final newline that $ lets pass
BeforeFinalNewline(message) ==
    IF message # <<>> /\ message[Len(message)] = "\n"
    THEN SubSeq(message, 1, Len(message) - 1)
    ELSE message

NoNewline(s) == \A k \in 1..Len(s) : s[k] # "\n"

\* _OPENING_FOR_READING_RE.match(message): ^Opening '(.*?)' for reading$
OpeningMatches(message) ==
    LET t == BeforeFinalNewline(message)
    IN  /\ Len(t) >= 2
        /\ t[1] = "Opening '" /\ t[Len(t)] = "' for reading"
        /\ NoNewline(t)

OpeningPath(message) ==
    LET t == BeforeFinalNewline(message) IN SubSeq(t, 2, Len(t) - 1)

\* _YARN_INPUT_SPLIT_RE.match(message):
\* ^Processing split:\s+(.*):(\d+)\+(\d+)$ ; the set of ends w of \s+
SplitMatches(message) ==
    LET t == BeforeFinalNewline(message)
    IN  {w \in 2..Len(t) :
            /\ t[1] = "Processing split:"
            /\ \A k \in 2..w : t[k] \in Whitespace \cup {"\n", "\r"}
            /\ w + 4 <= Len(t)
            /\ NoNewline(SubSeq(t, w + 1, Len(t)))
            /\ t[Len(t) - 3] = ":" /\ IsDigits(t[Len(t) - 2])
            /\ t[Len(t) - 1] = "+" /\ IsDigits(t[Len(t)])}

\* the groups of the match: \s+ is greedy and takes every blank it can
SplitOf(message) ==
    LET t == BeforeFinalNewline(message)
        w == CHOOSE w \in SplitMatches(message) :
                 \A v \in SplitMatches(message) : v <= w
    IN  [path |-> SubSeq(t, w + 1, Len(t) - 4),
         start_line |-> DigitValue(t[Len(t) - 2]),
         num_lines |-> DigitValue(t[Len(t)])]

\* a line of a Java stack trace after its indentation:
\* at .*\((.*\.java:\d+|Native Method)\)
JavaFrames == {"at Foo.run(Foo.java:12)", "at Bar.read(Native Method)"}

\* a frame looked for anywhere, not only on a line of its own
JavaTracebackFound_Anywhere(message) ==
    \E b \in 1..Len(message) : message[b] \in JavaFrames

\* _JAVA_TRACEBACK_RE.search(message):
\* $\s+at .*\((.*\.java:\d+|Native Method)\)$ with re.MULTILINE
JavaTracebackFound(message) ==
    \E a \in 1..Len(message), b \in 1..Len(message) :
        /\ a < b
        /\ message[a] = "\n"
        /\ \A k \in a..(b - 1) : message[k] \in Whitespace \cup {"\n", "\r"}
        /\ message[b] \in JavaFrames
        /\ (b = Len(message) \/ message[b + 1] = "\n")

\* the new split merged into the one already held
SetSplit_Merged(res, split) ==
    LET old == IF "split" \in DOMAIN res THEN res["split"] ELSE <<>>
    IN  Put(res, "split",
            [k \in DOMAIN old \cup DOMAIN split |->
                IF k \in DOMAIN split THEN split[k] ELSE old[k]])

\* lines 248 and 253: result['split'] = dict(...)
SetSplit(res, split) == Put(res, "split", split)

\* the break left out
BreaksOnError_Never == FALSE

\* line 266: break
BreaksOnError == TRUE

\* lines 244-266: one turn of the for loop on a record; stop tells whether
\* the turn ends the loop
syslog_body(record, res) ==
    LET message == record["message"]
    IN  IF OpeningMatches(message)
        THEN [result |-> SetSplit(res, [path |-> OpeningPath(message)]),
              stop |-> FALSE]
        ELSE IF SplitMatches(message) # {}
        THEN [result |-> SetSplit(res, SplitOf(message)),
              stop |-> FALSE]
        ELSE IF JavaTracebackFound(message)
        THEN [result |-> Put(res, "hadoop_error",
                             [message |-> message,
                              num_lines |-> record["num_lines"],
                              start_line |-> record["start_line"]]),
              stop |-> BreaksOnError]
        ELSE [result |-> res, stop |-> FALSE]

\* lines 243-266: the loop over the records from record k on
RECURSIVE syslog_loop(_, _, _)
syslog_loop(records, k, res) ==
    IF k > Len(records) THEN res
    ELSE LET turn == syslog_body(records[k], res)
         IN  IF turn.stop THEN turn.result
             ELSE syslog_loop(records, k + 1, turn.result)

_parse_task_syslog(records) == syslog_loop(records, 1, <<>>)

(* One call of _parse_task_syslog, a record at a time *)

\* bound on the number of records of a syslog
MaxRecords == 3

RecSplit ==
    [message |-> <<"Processing split:", " ", "hdfs:/in", ":", "1", "+", "3">>,
     start_line |-> 0, num_lines |-> 1]

\* a split message whose path reads like a line of a stack trace
RecSplitTrace ==
    [message |-> <<"Processing split:", "\n", "\t", "at Foo.run(Foo.java:12)",
                   ":", "2", "+", "1">>,
     start_line |-> 0, num_lines |-> 2]

RecOpening ==
    [message |-> <<"Opening '", "hdfs://x/y", "' for reading">>,
     start_line |-> 1, num_lines |-> 1]

RecError1 ==
    [message |-> <<"Error running child", "\n", "\t",
                   "at Foo.run(Foo.java:12)">>,
     start_line |-> 2, num_lines |-> 2]

RecError2 ==
    [message |-> <<"PipeMapRed failed!", "\n", " ", " ",
                   "at Bar.read(Native Method)", "\n", "\t",
                   "at Foo.run(Foo.java:12)", "\n">>,
     start_line |-> 4, num_lines |-> 3]

RecInfo == [message |-> <<"Task done">>, start_line |-> 7, num_lines |-> 1]

\* a one-line message that names a method: no line of a stack trace
RecMention ==
    [message |-> <<"Stopped", " ", "at Foo.run(Foo.java:12)">>,
     start_line |-> 8, num_lines |-> 1]

SyslogRecords == {RecSplit, RecSplitTrace, RecOpening, RecError1, RecError2, RecInfo,
                  RecMention}

InitSyslog ==
    /\ sy_records \in SeqsUpTo(SyslogRecords, MaxRecords)
    /\ sy_k = 1
    /\ sy_result = <<>>
    /\ sy_pc = "loop"
    /\ MatchIdle /\ LsIdle /\ InterpretIdle /\ StderrIdle

\* lines 243-266: one turn of the for loop, which pulls one record
SyslogRecord ==
    /\ sy_pc = "loop" /\ sy_k <= Len(sy_records)
    /\ LET turn == syslog_body(sy_records[sy_k], sy_result)
       IN  /\ sy_result' = turn.result
           /\ sy_pc' = IF turn.stop THEN "done" ELSE "loop"
    /\ sy_k' = sy_k + 1
    /\ UNCHANGED sy_records
    /\ UNCHANGED <<m_vars, ls_vars, it_vars, se_vars>>

\* line 268: the records are exhausted
SyslogReturn ==
    /\ sy_pc = "loop" /\ sy_k > Len(sy_records)
    /\ sy_pc' = "done"
    /\ UNCHANGED <<sy_records, sy_k, sy_result>>
    /\ UNCHANGED <<m_vars, ls_vars, it_vars, se_vars>>

NextSyslog == SyslogRecord \/ SyslogReturn

SpecSyslog == InitSyslog /\ [][NextSyslog]_vars

-----------------------------------------------------------------------------
(* One call of _interpret_task_logs *)

\* bound on the number of matches passed
MaxMatches == 3

StderrPath1 == <<"/">> \o Attempt1 \o <<"/", "stderr">>

StderrPath2 == <<"/">> \o App1 \o <<"/">> \o Container1 \o <<"/", "stderr">>

SyslogPath1 == <<"/">> \o Attempt1 \o <<"/", "syslog">>

SyslogPath2 == <<"/">> \o App1 \o <<"/">> \o Container1 \o <<"/", "syslog">>

StderrPaths == {StderrPath1, StderrPath2}

SyslogPaths == {SyslogPath1, SyslogPath2}

\* a match as _ls_logs yields it
MatchOf(path) == _ls_logs(path, NoArg, NoArg)

\* the matches a list can hold: a stderr match with its 'syslog' field, or
\* a syslog match
MatchUniverse ==
    {Put(MatchOf(e), "syslog", MatchOf(s)) : e \in StderrPaths, s \in SyslogPaths}
    \cup {MatchOf(s) : s \in SyslogPaths}

\* a stderr file that holds a failing command
StderrFailing ==
    << <<"+", " ", "cmd", "\n">>, <<"Traceback", "\n">>,
       <<"log4j:WARN", " ", "x", "\n">> >>

\* a stderr file that holds nothing but a warning
StderrQuiet == << <<"log4j:WARN", " ", "x", "\n">> >>

\* contents of a stderr file: a failing command, or nothing but a warning
StderrContents == {StderrFailing, StderrQuiet}

\* the records of a syslog that holds a split and an exception
SyslogFailing ==
    << [message |-> <<"Processing split:", " ", "hdfs:/in", ":", "1", "+", "3">>,
        start_line |-> 0, num_lines |-> 1],
       [message |-> <<"Error running child", "\n", "\t",
                      "at Foo.run(Foo.java:12)">>,
        start_line |-> 1, num_lines |-> 2] >>

\* the records of a syslog that holds a split alone
SyslogQuiet ==
    << [message |-> <<"Opening '", "s3:/in", "' for reading">>,
        start_line |-> 0, num_lines |-> 1] >>

\* records of a syslog: a split and an exception, or a split alone
SyslogContents == {SyslogFailing, SyslogQuiet}

\* mrjob.logs.wrap._cat_log: the content of the file at path
_cat_log(fs, path) == fs[path]

\* mrjob.logs.ids._add_implied_task_id: a task_id derived from attempt_id
_add_implied_task_id(error) ==
    IF "attempt_id" \in DOMAIN error /\ "task_id" \notin DOMAIN error
    THEN Put(error, "task_id",
             <<"task">> \o SubSeq(error["attempt_id"], 2, 9))
    ELSE error

\* lines 177-182: is this match for a stderr file
HasStderr(match) == DictTruthy(Get(match, "syslog")) /\ match["path"] # <<>>

stderr_path(match) == match["path"]

syslog_path(match) ==
    IF DictTruthy(Get(match, "syslog")) THEN match["syslog"]["path"]
    ELSE match["path"]

\* lines 187-191: the task error of the match's stderr, path stamped
task_error_of(match) ==
    LET task_error == _parse_task_stderr(_cat_log(fs_stderr, stderr_path(match)))
    IN  IF DictTruthy(task_error)
        THEN Put(task_error, "path", stderr_path(match))
        ELSE None

\* the syslog scanned although the stderr gave nothing
NoTaskError_Never(match) == FALSE

\* line 189-193: continue when the stderr holds no task error
NoTaskError(match) == HasStderr(match) /\ task_error_of(match) = None

\* the visited set never consulted
AlreadyParsed_Never(match) == FALSE

\* line 196
AlreadyParsed(match) == syslog_path(match) \in syslogs_parsed

\* line 201
syslog_error_of(match) ==
    _parse_task_syslog(_cat_log(fs_syslog, syslog_path(match)))

\* line 204
NoHadoopError(match) == ~DictTruthy(Get(syslog_error_of(match), "hadoop_error"))

\* error.update(syslog_error)
Update(d, e) == [k \in DOMAIN d \cup DOMAIN e |-> IF k \in DOMAIN e THEN e[k] ELSE d[k]]

\* container_id left out of the ids copied
CopyIds_AttemptOnly(error, match, id_keys) ==
    IF "attempt_id" \in DOMAIN match
    THEN Put(error, "attempt_id", match["attempt_id"])
    ELSE error

\* lines 212-214
RECURSIVE CopyIds(_, _, _)
CopyIds(error, match, id_keys) ==
    IF id_keys = <<>> THEN error
    ELSE CopyIds(IF Head(id_keys) \in DOMAIN match
                 THEN Put(error, Head(id_keys), match[Head(id_keys)])
                 ELSE error,
                 match, Tail(id_keys))

\* lines 174-215: the error dict built for a match that yields one
error_of(match) ==
    LET e1 == IF HasStderr(match) THEN [task_error |-> task_error_of(match)]
              ELSE <<>>
        e2 == Update(e1, syslog_error_of(match))
        e3 == Put(e2, "hadoop_error",
                  Put(e2["hadoop_error"], "path", syslog_path(match)))
        e4 == CopyIds(e3, match, <<"attempt_id", "container_id">>)
    IN  _add_implied_task_id(e4)

\* a task error surfaced without a hadoop_error
emitted_Uncorroborated(match) ==
    IF NoHadoopError(match)
    THEN IF HasStderr(match) THEN [task_error |-> task_error_of(match)] ELSE None
    ELSE error_of(match)

\* lines 204-215: the error to append for a match whose syslog was just
\* scanned; None when the match is dropped for want of a hadoop_error
emitted(match) == IF NoHadoopError(match) THEN None ELSE error_of(match)

\* lines 217-218
AppendError(res, error) ==
    Put(res, "errors", Append(IF "errors" \in DOMAIN res THEN res["errors"] ELSE <<>>,
                              error))

\* the flag set whatever partial is
SetPartial_Always(res) == Put(res, "partial", TRUE)

\* lines 220-221
SetPartial(res) == IF partial THEN Put(res, "partial", TRUE) ELSE res

\* the break forgotten
Breaks_Never == FALSE

\* line 222: break
Breaks == partial

\* the callback and read events of what an iteration does
Event(op, path) == [op |-> op, path |-> path]

\* the callback called after the read
Reading_CallbackAfter(path) ==
    IF log_callback THEN <<Event("cat", path), Event("callback", path)>>
    ELSE <<Event("cat", path)>>

Reading(path) ==
    IF log_callback THEN <<Event("callback", path), Event("cat", path)>>
    ELSE <<Event("cat", path)>>

Failing(path) ==
    IF log_callback THEN <<Event("callback", path), Event("fail", path)>>
    ELSE <<Event("fail", path)>>

Init ==
    /\ matches \in SeqsUpTo(MatchUniverse, MaxMatches)
    /\ fs_stderr \in [StderrPaths -> StderrContents]
    /\ fs_syslog \in [SyslogPaths -> SyslogContents]
    /\ partial \in BOOLEAN
    /\ log_callback \in BOOLEAN
    /\ i = 1
    /\ result = <<>>
    /\ syslogs_parsed = {}
    /\ io_log = <<>>
    /\ pc = "loop"
    /\ call = 1 /\ first_result = <<>> /\ first_io_log = <<>>
    /\ MatchIdle /\ LsIdle /\ StderrIdle /\ SyslogIdle

\* lines 173-222: one turn of the for loop, every read succeeding
LoopBody ==
    /\ pc = "loop" /\ i <= Len(matches)
    /\ LET match == matches[i]
           read1 == IF HasStderr(match) THEN Reading(stderr_path(match)) ELSE <<>>
           read2 == Reading(syslog_path(match))
       IN  IF NoTaskError(match) \/ AlreadyParsed(match)
           THEN /\ io_log' = io_log \o read1
                /\ i' = i + 1
                /\ UNCHANGED <<result, syslogs_parsed, pc>>
           ELSE /\ io_log' = io_log \o read1 \o read2
                /\ syslogs_parsed' = syslogs_parsed \cup {syslog_path(match)}
                /\ IF emitted(match) = None
                   THEN /\ i' = i + 1
                        /\ UNCHANGED <<result, pc>>
                   ELSE /\ result' = SetPartial(AppendError(result, emitted(match)))
                        /\ IF Breaks
                           THEN pc' = "done" /\ UNCHANGED i
                           ELSE i' = i + 1 /\ UNCHANGED pc
    /\ UNCHANGED <<fs_stderr, fs_syslog, matches, partial, log_callback>>
    /\ UNCHANGED <<again_vars, m_vars, ls_vars, se_vars, sy_vars>>

\* the exception caught and the loop left running
ReadErrorOutcome_Swallowed == "loop"

\* lines 187 and 201: no handler surrounds the reads, so an exception of
\* _cat_log leaves the function
ReadErrorOutcome == "raised"

\* line 187: reading the stderr raises
StderrReadFails ==
    /\ pc = "loop" /\ i <= Len(matches)
    /\ HasStderr(matches[i])
    /\ io_log' = io_log \o Failing(stderr_path(matches[i]))
    /\ pc' = ReadErrorOutcome
    /\ UNCHANGED <<fs_stderr, fs_syslog, matches, partial, log_callback, i,
                   result, syslogs_parsed>>
    /\ UNCHANGED <<again_vars, m_vars, ls_vars, se_vars, sy_vars>>

\* line 201: reading the syslog raises
SyslogReadFails ==
    /\ pc = "loop" /\ i <= Len(matches)
    /\ LET match == matches[i]
       IN  /\ ~NoTaskError(match) /\ ~AlreadyParsed(match)
           /\ io_log' = io_log
                  \o (IF HasStderr(match) THEN Reading(stderr_path(match)) ELSE <<>>)
                  \o Failing(syslog_path(match))
    /\ pc' = ReadErrorOutcome
    /\ UNCHANGED <<fs_stderr, fs_syslog, matches, partial, log_callback, i,
                   result, syslogs_parsed>>
    /\ UNCHANGED <<again_vars, m_vars, ls_vars, se_vars, sy_vars>>

\* line 224: the loop is exhausted
Return ==
    /\ pc = "loop" /\ i > Len(matches)
    /\ pc' = "done"
    /\ UNCHANGED <<fs_stderr, fs_syslog, matches, partial, log_callback, i,
                   result, syslogs_parsed, io_log>>
    /\ UNCHANGED <<again_vars, m_vars, ls_vars, se_vars, sy_vars>>

Next == LoopBody \/ StderrReadFails \/ SyslogReadFails \/ Return

Spec == Init /\ [][Next]_vars

-----------------------------------------------------------------------------
(* Two successive calls of _interpret_task_logs on the same arguments *)

\* the visited set of the call before kept
syslogs_parsed_entry_Kept == syslogs_parsed

\* line 171: syslogs_parsed = set()
syslogs_parsed_entry == {}

\* lines 170-171 of a second call, made once the first has returned; what
\* the first call returned and did is kept for comparison
CallAgain ==
    /\ pc = "done" /\ call = 1
    /\ first_result' = result
    /\ first_io_log' = io_log
    /\ call' = 2
    /\ i' = 1
    /\ result' = <<>>
    /\ syslogs_parsed' = syslogs_parsed_entry
    /\ io_log' = <<>>
    /\ pc' = "loop"
    /\ UNCHANGED <<fs_stderr, fs_syslog, matches, partial, log_callback>>
    /\ UNCHANGED <<m_vars, ls_vars, se_vars, sy_vars>>

NextAgain ==
    LoopBody \/ StderrReadFails \/ SyslogReadFails \/ Return \/ CallAgain

SpecAgain == Init /\ [][NextAgain]_vars


-----------------------------------------------------------------------------
(* The pipeline: _ls_task_logs over a listing of distinct paths, its       *)
(* result passed to _interpret_task_logs                                   *)

\* the sequences of at most n distinct elements of S
DistinctSeqs(S, n) ==
    {s \in SeqsUpTo(S, n) :
        \A j, k \in 1..Len(s) : j # k => s[j] # s[k]}

Range(s) == {s[k] : k \in 1..Len(s)}

\* what a listed file holds: the trace of a failure, or none
FileKinds == {"failing", "quiet"}

\* the lines _cat_log yields for a file of a kind
LinesOfKind(kind) == IF kind = "failing" THEN StderrFailing ELSE StderrQuiet

\* the records _parse_hadoop_log4j_records makes of a file of a kind
RecordsOfKind(kind) == IF kind = "failing" THEN SyslogFailing ELSE SyslogQuiet

InitPipe ==
    /\ listing \in DistinctSeqs(LsPaths, MaxFiles)
    /\ ls_application_id = NoArg /\ ls_job_id = NoArg
    /\ ls_i = 1
    /\ stderr_logs = <<>> /\ syslogs = <<>> /\ ls_result = <<>>
    /\ ls_pc = "loop"
    /\ \E kind \in [Range(listing) -> FileKinds] :
        /\ fs_stderr = [p \in Range(listing) |-> LinesOfKind(kind[p])]
        /\ fs_syslog = [p \in Range(listing) |-> RecordsOfKind(kind[p])]
    /\ matches = <<>> /\ partial = FALSE /\ log_callback = FALSE
    /\ i = 0 /\ result = <<>> /\ syslogs_parsed = {} /\ io_log = <<>>
    /\ pc = "idle"
    /\ call = 0 /\ first_result = <<>> /\ first_io_log = <<>>
    /\ MatchIdle /\ StderrIdle /\ SyslogIdle

\* line 140 entered with the list of line 106 as matches, lines 170-171
Handoff ==
    /\ ls_pc = "done" /\ pc = "idle"
    /\ matches' = ls_result
    /\ partial' \in BOOLEAN
    /\ log_callback' \in BOOLEAN
    /\ i' = 1
    /\ result' = <<>>
    /\ syslogs_parsed' = syslogs_parsed_entry
    /\ io_log' = <<>>
    /\ pc' = "loop"
    /\ call' = 1
    /\ UNCHANGED <<fs_stderr, fs_syslog, first_result, first_io_log>>
    /\ UNCHANGED <<m_vars, ls_vars, se_vars, sy_vars>>

NextPipe ==
    \/ LsLoop \/ LsReturn \/ Handoff
    \/ LoopBody \/ StderrReadFails \/ SyslogReadFails \/ Return

SpecPipe == InitPipe /\ [][NextPipe]_vars
-----------------------------------------------------------------------------
(* Claims about _interpret_task_logs, checked under Spec *)

Errors == IF "errors" \in DOMAIN result THEN result["errors"] ELSE <<>>

NumErrors == Len(Errors)

\* the matches that yield an error when their files are scanned
Corroborated(match) == ~NoTaskError(match) /\ ~NoHadoopError(match)

IoPaths == {io_log[k]["path"] : k \in 1..Len(io_log)}

\* how often the file at path was opened, successfully or not
TimesRead(path) ==
    Cardinality({k \in 1..Len(io_log) :
        io_log[k]["path"] = path /\ io_log[k]["op"] \in {"cat", "fail"}})

RECURSIVE IsSubsequence(_, _)
IsSubsequence(s, t) ==
    IF s = <<>> THEN TRUE
    ELSE IF t = <<>> THEN FALSE
    ELSE IF Head(s) = Head(t) THEN IsSubsequence(Tail(s), Tail(t))
    ELSE IsSubsequence(s, Tail(t))

\* the errors of the corroborated matches, in match order
RECURSIVE CorroboratedErrors(_)
CorroboratedErrors(ms) ==
    IF ms = <<>> THEN <<>>
    ELSE IF Corroborated(Head(ms))
         THEN <<error_of(Head(ms))>> \o CorroboratedErrors(Tail(ms))
         ELSE CorroboratedErrors(Tail(ms))

FirstCorroborated ==
    CHOOSE k \in 1..Len(matches) :
        Corroborated(matches[k]) /\ \A j \in 1..(k - 1) : ~Corroborated(matches[j])

C3_OnlyCorroborated ==
    [][ /\ \A n \in 1..Len(IF "errors" \in DOMAIN result'
                            THEN result'["errors"] ELSE <<>>) :
              LET e == result'["errors"][n]
              IN  /\ "hadoop_error" \in DOMAIN e
                  /\ {"message", "path"} \subseteq DOMAIN e["hadoop_error"]
                  /\ e["hadoop_error"]["message"] # <<>>
        /\ (pc = "loop" /\ i <= Len(matches) /\ NoHadoopError(matches[i]))
              => result' = result ]_vars

\* a stderr match whose task error was found and dropped, its syslog
\* scanned and holding no hadoop_error
C3_Witness ==
    /\ pc = "done" /\ result = <<>>
    /\ \E k \in 1..Len(matches) :
          /\ HasStderr(matches[k]) /\ ~NoTaskError(matches[k])
          /\ NoHadoopError(matches[k])
          /\ syslog_path(matches[k]) \in syslogs_parsed

\* C4: in one run no syslog is opened more than once, whether it is met
\* again as the pair of another stderr match or as a syslog match, and
\* whether or not its scan found a hadoop_error.
C4_SyslogReadOnce == \A s \in SyslogPaths : TimesRead(s) <= 1

\* a syslog scanned for a stderr match, holding no hadoop_error, and met
\* again later as a syslog match
C4_Witness ==
    /\ pc = "done"
    /\ \E j \in 1..Len(matches), k \in 1..Len(matches) :
          /\ j < k /\ k < i
          /\ HasStderr(matches[j]) /\ ~NoTaskError(matches[j])
          /\ NoHadoopError(matches[j])
          /\ ~HasStderr(matches[k])
          /\ syslog_path(matches[k]) = syslog_path(matches[j])
          /\ TimesRead(syslog_path(matches[k])) = 1

FailIndexes == {k \in 1..Len(io_log) : io_log[k]["op"] = "fail"}

\* C16: a failed read of a stderr or a syslog leaves the call by raising:
\* the call returns no result, the read is not tried again and no file is
\* read after it.
C16_ReadFailurePropagates ==
    /\ FailIndexes # {} <=> pc = "raised"
    /\ FailIndexes \subseteq {Len(io_log)}
    /\ pc = "raised" => i \in 1..Len(matches)

\* the second match's syslog cannot be read, after the first gave an error
C16_Witness ==
    /\ pc = "raised"
    /\ ~partial
    /\ NumErrors = 1
    /\ i = 2
    /\ Len(matches) = 3
    /\ io_log[Len(io_log)] = Event("fail", syslog_path(matches[2]))

IsCallback(k) == io_log[k]["op"] = "callback"

IsRead(k) == io_log[k]["op"] \in {"cat", "fail"}

\* the paths the callback was given by the events from place n on
RECURSIVE CallbackPaths(_, _)
CallbackPaths(log, n) ==
    IF n > Len(log) THEN <<>>
    ELSE IF log[n]["op"] = "callback"
    THEN <<log[n]["path"]>> \o CallbackPaths(log, n + 1)
    ELSE CallbackPaths(log, n + 1)

\* C17: a callback is called with the path of a file right before that file
\* is read and for no other file; with a paired match the stderr path comes
\* before the syslog path; a syslog path is reported at most once a run.
\* Without a callback nothing is called.
C17_CallbackBeforeRead ==
    /\ [](/\ ~log_callback => \A k \in 1..Len(io_log) : ~IsCallback(k)
          /\ log_callback =>
                /\ \A k \in 1..Len(io_log) :
                       IsRead(k) => /\ k > 1 /\ IsCallback(k - 1)
                                    /\ io_log[k - 1]["path"] = io_log[k]["path"]
                /\ \A k \in 1..Len(io_log) :
                       IsCallback(k) => /\ k < Len(io_log) /\ IsRead(k + 1)
                                        /\ io_log[k + 1]["path"] = io_log[k]["path"]
                /\ \A p \in SyslogPaths :
                       Cardinality({k \in 1..Len(io_log) :
                           IsCallback(k) /\ io_log[k]["path"] = p}) <= 1)
    /\ [][(log_callback /\ pc = "loop" /\ i <= Len(matches)
              /\ HasStderr(matches[i])) =>
             CallbackPaths(io_log', Len(io_log) + 1) \in
                 {<<stderr_path(matches[i])>>,
                  <<stderr_path(matches[i]), syslog_path(matches[i])>>}]_vars

\* a paired match whose two files were reported, and a later match for the
\* same syslog that was not reported again
C17_Witness ==
    /\ pc = "done"
    /\ log_callback
    /\ Len(matches) = 2
    /\ HasStderr(matches[1])
    /\ matches[2] = matches[1]["syslog"]
    /\ CallbackPaths(io_log, 1) =
           <<stderr_path(matches[1]), syslog_path(matches[1])>>
    /\ i = 3

\* C18: with partial true the scan stops at the first error that includes a
\* task_error: the error that ends the scan before the last match carries a
\* task_error, an error made of a hadoop_error alone does not end it.
C18_StopsAtTaskError ==
    (partial /\ pc = "done" /\ i < Len(matches)) =>
        "task_error" \in DOMAIN Errors[NumErrors]

\* the cat events of a log
Cats(log) == {k \in 1..Len(log) : log[k]["op"] = "cat"}

\* C22: when the stderr scan of a paired match yields no TaskError, the turn
\* reads the stderr alone and leaves the visited set as it is; and a turn on
\* a bare syslog match reads the syslog unless a turn before it has read it.
C22_PairedSyslogLeftForLater ==
    [][(pc = "loop" /\ i <= Len(matches) /\ pc' # "raised") =>
          LET match == matches[i]
              new == SubSeq(io_log', Len(io_log) + 1, Len(io_log'))
          IN  /\ ("syslog" \in DOMAIN match
                      /\ _parse_task_stderr(fs_stderr[match["path"]]) = None) =>
                  /\ \A k \in 1..Len(new) : new[k]["path"] = match["path"]
                  /\ syslogs_parsed' = syslogs_parsed
                  /\ result' = result
              /\ "syslog" \notin DOMAIN match =>
                  IF \E k \in Cats(io_log) : io_log[k]["path"] = match["path"]
                  THEN new = <<>>
                  ELSE /\ \E k \in Cats(new) : new[k]["path"] = match["path"]
                       /\ match["path"] \in syslogs_parsed']_vars

\* a paired match whose stderr holds nothing, then the bare match of the
\* same syslog, which gives the error
C22_Witness ==
    /\ pc = "done"
    /\ Len(matches) = 2
    /\ "syslog" \in DOMAIN matches[1]
    /\ _parse_task_stderr(fs_stderr[matches[1]["path"]]) = None
    /\ matches[2] = matches[1]["syslog"]
    /\ NumErrors = 1
    /\ "task_error" \notin DOMAIN Errors[1]

\* C24: in every error appended, hadoop_error.path is the path of the syslog
\* scanned (the paired one for a stderr match, the match's own otherwise);
\* task_error is there exactly when the match is a stderr match, with the
\* match's path; attempt_id and container_id of the match are copied as
\* they are.
C24_ErrorRecordFields ==
    [][(pc = "loop" /\ i <= Len(matches) /\ result' # result) =>
          LET match == matches[i]
              error == result'["errors"][Len(result'["errors"])]
          IN  /\ Len(result'["errors"]) = NumErrors + 1
              /\ error["hadoop_error"]["path"] =
                     (IF "syslog" \in DOMAIN match
                      THEN match["syslog"]["path"] ELSE match["path"])
              /\ "task_error" \in DOMAIN error <=> "syslog" \in DOMAIN match
              /\ "syslog" \in DOMAIN match =>
                     error["task_error"]["path"] = match["path"]
              /\ \A id_key \in {"attempt_id", "container_id"} :
                     id_key \in DOMAIN match =>
                         /\ id_key \in DOMAIN error
                         /\ error[id_key] = match[id_key]]_vars

\* an error from a stderr match with a container_id and one from a syslog
\* match with an attempt_id
C24_Witness ==
    /\ pc = "done"
    /\ NumErrors = 2
    /\ \E a, b \in 1..2 :
           /\ "task_error" \in DOMAIN Errors[a]
           /\ "container_id" \in DOMAIN Errors[a]
           /\ "task_error" \notin DOMAIN Errors[b]
           /\ "attempt_id" \in DOMAIN Errors[b]

\* the matches paired with the syslog at path whose stderr yields a TaskError
PairedWithError(path) ==
    {k \in 1..Len(matches) :
        /\ "syslog" \in DOMAIN matches[k]
        /\ matches[k]["syslog"]["path"] = path
        /\ _parse_task_stderr(fs_stderr[matches[k]["path"]]) # None}

\* C28: no two errors of a result have the same hadoop_error.path; of the
\* stderr matches that share a syslog only the first whose stderr yields a
\* TaskError can give an error, the TaskErrors of the others are dropped.
C28_DistinctHadoopPaths ==
    /\ \A a, b \in 1..NumErrors :
           Errors[a]["hadoop_error"]["path"] = Errors[b]["hadoop_error"]["path"]
               => a = b
    /\ \A a \in 1..NumErrors :
           "task_error" \in DOMAIN Errors[a] =>
               LET S == PairedWithError(Errors[a]["hadoop_error"]["path"])
               IN  /\ S # {}
                   /\ Errors[a]["task_error"]["path"] = matches[MinOf(S)]["path"]

\* two stderr matches with a TaskError each share a syslog: one error, with
\* the TaskError of the first
C28_Witness ==
    /\ pc = "done"
    /\ ~partial
    /\ Len(matches) = 2
    /\ "syslog" \in DOMAIN matches[1] /\ "syslog" \in DOMAIN matches[2]
    /\ matches[1]["syslog"] = matches[2]["syslog"]
    /\ matches[1]["path"] # matches[2]["path"]
    /\ PairedWithError(matches[1]["syslog"]["path"]) = {1, 2}
    /\ NumErrors = 1
    /\ Errors[1]["task_error"]["path"] = matches[1]["path"]

-----------------------------------------------------------------------------
(* Claims about _ls_task_logs, checked under SpecLs *)

\* what the classifier makes of a listed path under the call's filters
ClassOf(path) == _match_task_log_path(path, ls_application_id, ls_job_id)

IsType(path, log_type) ==
    ClassOf(path) # None /\ ClassOf(path)["log_type"] = log_type

IdentityKeys == {"attempt_id", "application_id", "container_id"}

\* a and b have the same identity fields, with the same values
SameIdentity(a, b) ==
    \A key \in IdentityKeys :
        /\ (key \in DOMAIN a) <=> (key \in DOMAIN b)
        /\ key \in DOMAIN a => a[key] = b[key]

\* a listed stderr file for which a syslog file of equal identity is listed
IsPairedStderrPath(path) ==
    /\ IsType(path, "stderr")
    /\ \E j \in 1..Len(listing) :
          /\ IsType(listing[j], "syslog")
          /\ SameIdentity(ClassOf(path), ClassOf(listing[j]))

IsSyslogPath(path) == IsType(path, "syslog")

PathsOf(ms) == [n \in 1..Len(ms) |-> ms[n]["path"]]

C7_NoUnpairedStderr ==
    ls_pc = "done" =>
        \A n \in 1..Len(ls_result) :
            ls_result[n]["log_type"] = "stderr" =>
                /\ "syslog" \in DOMAIN ls_result[n]
                /\ DictTruthy(ls_result[n]["syslog"])
                /\ \E k \in 1..Len(syslogs) : syslogs[k] = ls_result[n]["syslog"]
                /\ ls_result[n]["syslog"]["log_type"] = "syslog"
                /\ SameIdentity(ClassOf(ls_result[n]["path"]),
                                ls_result[n]["syslog"])
                /\ IsPairedStderrPath(ls_result[n]["path"])

\* a stderr file with no syslog was listed and dropped, another was kept
C7_Witness ==
    /\ ls_pc = "done"
    /\ \E k \in 1..Len(listing) :
          /\ IsType(listing[k], "stderr") /\ ~IsPairedStderrPath(listing[k])
          /\ \A n \in 1..Len(ls_result) : ls_result[n]["path"] # listing[k]
    /\ \E n \in 1..Len(ls_result) : ls_result[n]["log_type"] = "stderr"

\* C8: whenever a stderr file and a syslog file of equal identity are both
\* listed, in either order and whatever is listed between them, the stderr
\* match is returned paired with a syslog of that identity; no stderr
\* match is paired with a syslog of another identity.
C8_PairingByIdentity ==
    ls_pc = "done" =>
        /\ \A j \in 1..Len(listing), k \in 1..Len(listing) :
              (/\ IsType(listing[j], "stderr") /\ IsType(listing[k], "syslog")
               /\ SameIdentity(ClassOf(listing[j]), ClassOf(listing[k])))
              => \E n \in 1..Len(ls_result) :
                    /\ ls_result[n]["path"] = listing[j]
                    /\ ls_result[n]["log_type"] = "stderr"
                    /\ DictTruthy(Get(ls_result[n], "syslog"))
                    /\ SameIdentity(ls_result[n]["syslog"], ClassOf(listing[k]))
        /\ \A n \in 1..Len(stderr_logs) :
              DictTruthy(Get(stderr_logs[n], "syslog")) =>
                  SameIdentity(ClassOf(stderr_logs[n]["path"]),
                               stderr_logs[n]["syslog"])

\* the stderr listed last, its syslog first, a file of another task
\* between them, and the two are paired
C8_Witness ==
    /\ ls_pc = "done" /\ Len(listing) = 3
    /\ IsType(listing[1], "syslog") /\ IsType(listing[3], "stderr")
    /\ ClassOf(listing[2]) # None
    /\ ~SameIdentity(ClassOf(listing[2]), ClassOf(listing[1]))
    /\ ls_result[1]["path"] = listing[3]
    /\ ls_result[1]["syslog"]["path"] = listing[1]

-----------------------------------------------------------------------------
(* Claims about _match_task_log_path *)

\* the path has the pre-YARN layout and its attempt is of another job
DifferentJob(path, job_id) ==
    /\ job_id.given /\ job_id.val # <<>>
    /\ \E k \in PreYarnMatches(path) :
          job_id.val # <<"job", "_", path[k + 3], "_", path[k + 5]>>

\* the path has the YARN layout and is of another application
DifferentApplication(path, application_id) ==
    /\ application_id.given /\ application_id.val # <<>>
    /\ \E kc \in YarnMatches(path) :
          application_id.val # SubSeq(path, kc[1] + 1, kc[1] + 5)

FileNameStart(path) ==
    1 + CHOOSE k \in 1..Len(path) :
            path[k] = "/" /\ \A j \in (k + 1)..Len(path) : path[j] # "/"

C10_FilteredOut ==
    \A k \in 1..Len(listing) :
        (\/ DifferentJob(listing[k], ls_job_id)
         \/ DifferentApplication(listing[k], ls_application_id)) =>
            /\ ClassOf(listing[k]) = None
            /\ \A p \in LsPaths :
                  (PreYarnMatches(p) = {} /\ YarnMatches(p) = {}) =>
                      ClassOf(listing[k]) = ClassOf(p)
            /\ \A n \in 1..Len(stderr_logs) : stderr_logs[n]["path"] # listing[k]
            /\ \A n \in 1..Len(syslogs) : syslogs[n]["path"] # listing[k]
            /\ \A n \in 1..Len(ls_result) : ls_result[n]["path"] # listing[k]

\* a file of another job and a file of another application were listed
\* with a file of the job asked for; only that one is returned
C10_Witness ==
    /\ ls_pc = "done"
    /\ \E k \in 1..Len(listing) : DifferentJob(listing[k], ls_job_id)
    /\ \E k \in 1..Len(listing) :
          DifferentApplication(listing[k], ls_application_id)
    /\ Len(ls_result) = 1

\* the place in the listing where a path is first listed
FirstListed(path) ==
    MinOf({k \in 1..Len(listing) : listing[k] = path})

\* the number of listed entries after which the first returned match, and the
\* syslog it is paired with, have both been listed
ListedFor(match) ==
    IF "syslog" \in DOMAIN match
    THEN MaxOf({FirstListed(match["path"]),
                FirstListed(match["syslog"]["path"])})
    ELSE FirstListed(match["path"])

\* C25 (checked under SpecLs): the listing is consumed lazily: when the first
\* match is handed out and the listing holds entries after those the match
\* was made from, some entries of the listing are still unconsumed.
C25_LazyListing ==
    (/\ ls_result # <<>>
     /\ ListedFor(Head(ls_result)) < Len(listing))
    => ls_i <= Len(listing)

\* the places in the listing of the syslog files of the identity of a path
SyslogsLike(path) ==
    {k \in 1..Len(listing) :
        /\ IsType(listing[k], "syslog")
        /\ SameIdentity(ClassOf(path), ClassOf(listing[k]))}

\* the matches of a list that are of a type
OfType(ms, log_type) ==
    SelectSeq(ms, LAMBDA match : match["log_type"] = log_type)

\* C31 (checked under SpecLs): every stderr match returned is paired with
\* the syslog file of its identity that is listed last, and every syslog
\* file listed, those of one identity included, is in the syslog part of
\* the list returned, in listing order.
C31_LastSyslogPairs ==
    ls_pc = "done" =>
        /\ \A n \in 1..Len(ls_result) :
              ls_result[n]["log_type"] = "stderr" =>
                  /\ SyslogsLike(ls_result[n]["path"]) # {}
                  /\ ls_result[n]["syslog"]["path"] =
                        listing[MaxOf(SyslogsLike(ls_result[n]["path"]))]
        /\ PathsOf(OfType(ls_result, "syslog")) =
              SelectSeq(listing, IsSyslogPath)

\* two syslog files of one identity and of different paths were listed, the
\* stderr match of that identity is paired with the second, and both are
\* returned after it in listing order
C31_Witness ==
    /\ ls_pc = "done" /\ Len(ls_result) = 3
    /\ ls_result[1]["log_type"] = "stderr"
    /\ \E j, k \in SyslogsLike(ls_result[1]["path"]) :
          /\ j < k /\ listing[j] # listing[k]
          /\ ls_result[1]["syslog"]["path"] = listing[k]
          /\ ls_result[2]["path"] = listing[j]
          /\ ls_result[3]["path"] = listing[k]

\* C32 (checked under SpecMatch): a path of the pre-YARN layout is excluded
\* by a job_id of another job and by nothing else, whatever application_id
\* is passed; a path of the YARN layout is excluded by an application_id of
\* another application and by nothing else, whatever job_id is passed; an
\* absent or empty filter excludes nothing; a path not excluded is
\* classified as with no filter at all.
C32_OtherLayoutFilterIgnored ==
    m_pc = "done" =>
        LET pre == PreYarnMatches(m_path) # {}
            yarn == YarnMatches(m_path) # {}
        IN  /\ pre => (m_result = None <=> DifferentJob(m_path, m_job_id))
            /\ yarn =>
                  (m_result = None <=>
                      DifferentApplication(m_path, m_application_id))
            /\ (pre /\ (~m_job_id.given \/ m_job_id.val = <<>>)) =>
                  m_result # None
            /\ (yarn /\ (~m_application_id.given
                            \/ m_application_id.val = <<>>)) =>
                  m_result # None
            /\ m_result # None =>
                  m_result = _match_task_log_path(m_path, NoArg, NoArg)

\* a pre-YARN path classified under an application_id and an empty job_id
C32_Witness ==
    /\ m_pc = "done"
    /\ PreYarnMatches(m_path) # {}
    /\ m_application_id = Arg(App2) /\ m_job_id = Arg(<<>>)
    /\ m_result # None
    /\ m_result["attempt_id"] = Attempt1

-----------------------------------------------------------------------------
(* Claims about _parse_task_stderr, checked under SpecStderr.  The kinds   *)
(* of line are told apart by naming the lines, not by the scanner's tests. *)

CommandLines == {CmdLine1, CmdLine2}

SignatureLines == {SigLine}

NoiseLines == {NoiseLine}

IndentedLines == {PyLine, FrameLine}

\* the line of index k (0-indexed) of the input
LineAt(k) == se_lines[k + 1]

NumLines == Len(se_lines)

\* the text of a line without its terminator
TextOf(raw) == SelectSeq(raw, LAMBDA c : c \notin {"\r", "\n"})

IsSig(k) == LineAt(k) \in SignatureLines

IsNoise(k) == LineAt(k) \in NoiseLines

\* stack-trace mode is open when line k is taken (k = NumLines: at the end):
\* a signature line precedes it with nothing but indented lines in between
InTrace(k) ==
    \E j \in 0..(k - 1) :
        IsSig(j) /\ \A l \in (j + 1)..(k - 1) : LineAt(l) \in IndentedLines

\* an indented line skipped as part of a stack trace
IsSkipped(k) == InTrace(k) /\ LineAt(k) \in IndentedLines

\* a line that is neither a signature line, a skipped line nor a noise line
IsKept(k) == ~IsSig(k) /\ ~IsSkipped(k) /\ ~IsNoise(k)

\* the kept lines from index k on, joined by newlines
RECURSIVE KeptText(_)
KeptText(k) ==
    IF k >= NumLines THEN <<>>
    ELSE IF ~IsKept(k) THEN KeptText(k + 1)
    ELSE IF \E l \in (k + 1)..(NumLines - 1) : IsKept(l)
    THEN TextOf(LineAt(k)) \o <<"\n">> \o KeptText(k + 1)
    ELSE TextOf(LineAt(k))

\* C11: the returned TaskError is the last started block: it starts at the
\* last line that begins with '+ ' and its message is that line and the
\* kept lines after it, every earlier block discarded; with no such line it
\* starts at the first line that is neither a signature line, a skipped
\* stack-trace line nor a noise line.  ["+ cmd1", "+ cmd2", "err line"]
\* gives start_line 1 and num_lines 2.
C11_LastBlock ==
    se_pc = "done" =>
        LET cmds == {k \in 0..(NumLines - 1) : LineAt(k) \in CommandLines}
            kept == {k \in 0..(NumLines - 1) : IsKept(k)}
        IN  /\ cmds # {} =>
                /\ se_result # None
                /\ se_result["start_line"] = MaxOf(cmds)
                /\ se_result["message"] = KeptText(MaxOf(cmds))
                /\ SubSeq(se_result["message"], 1,
                          Len(TextOf(LineAt(MaxOf(cmds))))) =
                       TextOf(LineAt(MaxOf(cmds)))
            /\ (cmds = {} /\ kept # {}) =>
                /\ se_result # None
                /\ se_result["start_line"] = MinOf(kept)
            /\ se_lines = <<CmdLine1, CmdLine2, ErrLine>> =>
                se_result = [message |-> CmdLine2 \o <<"\n">> \o ErrLine,
                             start_line |-> 1, num_lines |-> 2]

\* two blocks were started and the first one is gone
C11_Witness ==
    /\ se_pc = "done"
    /\ se_lines = <<CmdLine1, CmdLine2, ErrLine>>
    /\ se_result # None
    /\ se_result["start_line"] = 1

\* C12: a signature line and every indented line that follows it without
\* interruption are left out of the message and leave the current TaskError
\* as it is; the first non-indented line after them closes stack-trace mode
\* and is handled as the same line would be with no stack trace open.
C12_StackTraceSkipped ==
    /\ [](se_pc = "done" /\ se_result # None =>
            se_result["message"] = KeptText(se_result["start_line"]))
    /\ [][se_n' = se_n + 1 =>
            /\ (IsSig(se_n) \/ IsSkipped(se_n)) =>
                   se_st'.task_error = se_st.task_error
            /\ (InTrace(se_n) /\ ~IsSig(se_n)
                    /\ LineAt(se_n) \notin IndentedLines) =>
                   /\ se_st'.stack_trace_start_line = NoLine
                   /\ se_st'.task_error =
                          stderr_body(se_n, LineAt(se_n),
                              [se_st EXCEPT !.stack_trace_start_line = NoLine]
                          ).task_error]_vars

\* a signature line, two indented lines, then the line the scan resumes at
C12_Witness ==
    /\ se_pc = "done"
    /\ se_result # None
    /\ \E k \in 0..(NumLines - 1) :
           /\ IsSig(k) /\ k + 3 < NumLines
           /\ IsSkipped(k + 1) /\ IsSkipped(k + 2)
           /\ IsKept(k + 3)
           /\ se_result["start_line"] = k + 3

\* C13: the scanner returns None exactly when every line is a signature
\* line, a skipped indented line or a noise line (so on empty input); the
\* call returns, it does not raise.
C13_NoneIffNoBlock ==
    /\ se_pc \in {"loop", "done"}
    /\ se_pc = "done" =>
           /\ se_result = None <=> \A k \in 0..(NumLines - 1) : ~IsKept(k)
           /\ se_lines = <<>> => se_result = None

\* a file of nothing but a stack trace and a warning
C13_Witness ==
    /\ se_pc = "done"
    /\ se_result = None
    /\ \E k \in 0..(NumLines - 1) : IsSkipped(k)
    /\ \E k \in 0..(NumLines - 1) : IsNoise(k)

\* the number of lines a text is made of
LinesOf(message) ==
    1 + Cardinality({k \in 1..Len(message) : message[k] = "\n"})

\* C19: for every TaskError returned, num_lines is how many lines the
\* message takes up: the message consists of exactly num_lines lines.
C19_NumLinesIsMessageLength ==
    (se_pc = "done" /\ se_result # None) =>
        se_result["num_lines"] = LinesOf(se_result["message"])

\* a noise line follows the start of the returned block
FinalizedByNoise ==
    \E k \in (se_result["start_line"] + 1)..(NumLines - 1) : IsNoise(k)

\* the end line when no noise line set the length: the most recent signature
\* line if stack-trace mode is open at the end, else the number of lines
EndLine ==
    IF InTrace(NumLines)
    THEN MaxOf({j \in 0..(NumLines - 1) : IsSig(j)})
    ELSE NumLines

\* C20: at the end of input, when no noise line set the length of the
\* current TaskError, num_lines = E - start_line, E the index of the most
\* recent signature line if stack-trace mode is still open and the number
\* of lines otherwise, whatever the input (a signature line at index 0
\* included).
C20_EndOfInput ==
    (se_pc = "done" /\ se_result # None /\ ~FinalizedByNoise) =>
        se_result["num_lines"] = EndLine - se_result["start_line"]

\* the input ends inside a stack trace that follows the block, and begins
\* with a signature line
C20_Witness ==
    /\ se_pc = "done"
    /\ se_result # None
    /\ ~FinalizedByNoise
    /\ InTrace(NumLines)
    /\ IsSig(0)
    /\ se_result["num_lines"] = EndLine - se_result["start_line"]
    /\ EndLine < NumLines - 1

\* the TaskError being built
Current == se_st.task_error

C29_SpanWithinInput ==
    (se_pc = "done" /\ se_result # None) =>
        /\ se_result["start_line"] >= 0
        /\ se_result["num_lines"] >= 1
        /\ se_result["start_line"] + se_result["num_lines"] <= NumLines

\* the block ends where a stack trace, still open at the end, begins
C29_Witness ==
    /\ se_pc = "done"
    /\ se_result # None
    /\ InTrace(NumLines)
    /\ se_result["start_line"] >= 1
    /\ se_result["start_line"] + se_result["num_lines"] < NumLines

-----------------------------------------------------------------------------
(* Claims about _parse_task_syslog, checked under SpecSyslog.  The kinds   *)
(* of record are told apart by naming the records.                         *)

\* the records whose message holds lines of a Java stack trace
ErrorRecords == {RecError1, RecError2}

SplitRecords == {RecSplit, RecSplitTrace, RecOpening}

\* the split a split record tells
SplitValue(record) ==
    IF record = RecSplit
    THEN [path |-> <<"hdfs:/in">>, start_line |-> 1, num_lines |-> 3]
    ELSE IF record = RecSplitTrace
    THEN [path |-> <<"at Foo.run(Foo.java:12)">>, start_line |-> 2,
          num_lines |-> 1]
    ELSE [path |-> <<"hdfs://x/y">>]

ErrorIndexes == {k \in 1..Len(sy_records) : sy_records[k] \in ErrorRecords}

\* the number of records pulled from the stream so far
Pulled == sy_k - 1

\* what the split records among the first n records leave in the result
SplitAfter(n) ==
    LET splits == {k \in 1..n : sy_records[k] \in SplitRecords}
    IN  IF splits = {} THEN <<>>
        ELSE [split |-> SplitValue(sy_records[MaxOf(splits)])]

C15_NoErrorRecord ==
    (sy_pc = "done" /\ ErrorIndexes = {}) =>
        /\ Pulled = Len(sy_records)
        /\ "hadoop_error" \notin DOMAIN sy_result
        /\ sy_result = SplitAfter(Len(sy_records))
        /\ sy_records = <<RecOpening>> =>
               sy_result = [split |-> [path |-> <<"hdfs://x/y">>]]

\* the stream of the one Opening record
C15_Witness ==
    /\ sy_pc = "done"
    /\ sy_records = <<RecOpening>>
    /\ Pulled = 1
    /\ DOMAIN sy_result = {"split"}

\* the records that can leave a split: those up to the first error record
SplitLimit ==
    IF ErrorIndexes = {} THEN Len(sy_records) ELSE MinOf(ErrorIndexes)

\* C23: the split returned is that of the last split record, of either
\* format, before the first error record, and nothing of an earlier split
\* record stays: an Opening record after a Processing split record leaves a
\* split with path only; split records after the error record change
\* nothing; a record of a split format is never taken as the error.
C23_LastSplitWins ==
    sy_pc = "done" =>
        /\ LET splits == {k \in 1..SplitLimit : sy_records[k] \in SplitRecords}
           IN  IF splits = {} THEN "split" \notin DOMAIN sy_result
               ELSE /\ "split" \in DOMAIN sy_result
                    /\ sy_result["split"] = SplitValue(sy_records[MaxOf(splits)])
        /\ (Len(sy_records) >= 2 /\ sy_records[1] = RecSplit
                /\ sy_records[2] = RecOpening
                /\ \A k \in 3..Len(sy_records) : sy_records[k] \notin SplitRecords)
               => DOMAIN sy_result["split"] = {"path"}
        /\ "hadoop_error" \in DOMAIN sy_result =>
               \A r \in SplitRecords :
                   sy_result["hadoop_error"]["message"] # r.message

\* a Processing split record, an Opening record, then the error record
C23_Witness ==
    /\ sy_pc = "done"
    /\ Len(sy_records) = 3
    /\ sy_records[1] = RecSplit /\ sy_records[2] = RecOpening
    /\ sy_records[3] \in ErrorRecords
    /\ DOMAIN sy_result = {"split", "hadoop_error"}
    /\ sy_result["split"] = [path |-> <<"hdfs://x/y">>]

-----------------------------------------------------------------------------
(* Claims about two successive calls of _interpret_task_logs, checked      *)
(* under SpecAgain                                                         *)

\* the syslog files a call read, taken from what it did to the outside
SyslogsRead(log) ==
    {log[k].path : k \in {j \in 1..Len(log) :
        log[j].op = "cat" /\ log[j].path \in SyslogPaths}}

\* C26: the visited set belongs to one call: when the second of two calls on
\* the same match list and files returns, its result equals that of the
\* first, every syslog the first call read has been read again, and no step
\* of either call changes the match list.
C26_VisitedSetIsLocal ==
    /\ [](call = 2 /\ pc = "done" =>
            /\ result = first_result
            /\ SyslogsRead(first_io_log) \subseteq SyslogsRead(io_log))
    /\ [][matches' = matches]_vars

\* the second call has returned, the first one having read a syslog and
\* returned an error
C26_Witness ==
    /\ call = 2 /\ pc = "done"
    /\ SyslogsRead(first_io_log) # {}
    /\ "errors" \in DOMAIN first_result
    /\ result = first_result

-----------------------------------------------------------------------------
(* Claims about the pipeline, checked under SpecPipe *)

\* the type of log a listed path is classified as
LogTypeOf(path) ==
    LET m == _match_task_log_path(path, NoArg, NoArg)
    IN  IF m = None THEN "none" ELSE m["log_type"]

\* the syslog files of the listing
SyslogFiles == {p \in Range(listing) : LogTypeOf(p) = "syslog"}

\* the records of the result stamped with a syslog path
RecordsAbout(p) ==
    {k \in 1..Len(Errors) : Errors[k]["hadoop_error"]["path"] = p}

\* C27: when exhaustive interpretation of the discoverer's matches over
\* distinct paths has returned, the result holds exactly one ErrorRecord for
\* every syslog file that holds an exception and none for any other path,
\* whatever the stderr paired with the syslog yielded.
C27_OneRecordPerFailingSyslog ==
    (pc = "done" /\ ls_pc = "done" /\ ~partial) =>
        /\ \A p \in SyslogFiles :
            Cardinality(RecordsAbout(p)) =
                IF fs_syslog[p] = SyslogFailing THEN 1 ELSE 0
        /\ \A k \in 1..Len(Errors) :
            Errors[k]["hadoop_error"]["path"] \in SyslogFiles

\* exhaustive interpretation has returned the one record of a failing syslog
\* whose paired stderr yielded no task error
C27_Witness ==
    /\ pc = "done" /\ ls_pc = "done" /\ ~partial
    /\ \E k \in 1..Len(matches) :
        /\ "syslog" \in DOMAIN matches[k]
        /\ fs_stderr[matches[k]["path"]] = StderrQuiet
        /\ fs_syslog[matches[k]["syslog"]["path"]] = SyslogFailing
        /\ Cardinality(RecordsAbout(matches[k]["syslog"]["path"])) = 1

\* C30: in the pipeline, the path an iteration gives to the stderr scanner
\* is that of a stderr file and the path it gives to the syslog scanner is
\* that of a syslog file.
C30_ScannersGetTheirOwnLogs ==
    (pc = "loop" /\ ls_pc = "done" /\ i <= Len(matches)) =>
        LET match == matches[i]
        IN  /\ HasStderr(match) => LogTypeOf(stderr_path(match)) = "stderr"
            /\ (~NoTaskError(match) /\ ~AlreadyParsed(match)) =>
                    LogTypeOf(syslog_path(match)) = "syslog"

\* a stderr file with no syslog was listed, and the iteration at hand gives
\* a path to each scanner
C30_Witness ==
    /\ pc = "loop" /\ ls_pc = "done" /\ i <= Len(matches)
    /\ \E p \in Range(listing) :
        /\ LogTypeOf(p) = "stderr"
        /\ \A k \in 1..Len(matches) : matches[k]["path"] # p
    /\ HasStderr(matches[i])
    /\ ~NoTaskError(matches[i]) /\ ~AlreadyParsed(matches[i])
    /\ LogTypeOf(stderr_path(matches[i])) = "stderr"
    /\ LogTypeOf(syslog_path(matches[i])) = "syslog"

=============================================================================
